---- MODULE Spec2Model ----
(***************************************************************************)
(* A model of pyryver (src/pyryver.py): the paginator get_all and the      *)
(* Session methods built on it, the entity registry (ENTITY_TYPES,         *)
(* TYPES_DICT, get_type_from_entity), Ryver.get_object and the             *)
(* Notification source-location accessors.                                 *)
(*                                                                         *)
(* One client call is in progress at a time (the library is synchronous).  *)
(* A call starts from pc = "idle" with its arguments and the server's      *)
(* state drawn from small sets, runs its steps, and ends in pc = "done"    *)
(* with either a return value (ret) or an exception kind (exc).            *)
(***************************************************************************)
EXTENDS Integers, Sequences, FiniteSets, TLC

----------------------------------------------------------------------------
(* Bounds of the model *)

\* the server holds at most MaxN records behind a paginated endpoint
MaxN == 121
\* the caller's initial skip is at most MaxSkip
MaxSkip == 1
\* the server answers at most MaxShort requests of one call with a short page
MaxShort == 1
\* object ids embedded in raw records are 1..MaxId
MaxId == 2
\* the server holds at most MaxWrapN records when a Session method wraps them
MaxWrapN == 3

----------------------------------------------------------------------------
(* Program constants *)

\* the page size the REST API gives at a time: min(top, 50)
PageCap == 50

TYPE_USER == "users"
TYPE_FORUM == "forums"
TYPE_TEAM == "workrooms"
TYPE_TOPIC == "posts"
TYPE_TOPIC_REPLY == "postComments"
TYPE_NOTIFICATION == "userNotifications"
TYPE_MESSAGE == "messages"

\* a dict is the sequence of its (key, value) items in insertion order
ENTITY_TYPES ==
    << <<TYPE_USER, "Entity.User">>,
       <<TYPE_FORUM, "Entity.Forum">>,
       <<TYPE_TEAM, "Entity.Workroom">>,
       <<TYPE_TOPIC, "Entity.Post">>,
       <<TYPE_MESSAGE, "Entity.ChatMessage">>,
       <<TYPE_TOPIC_REPLY, "Entity.Post.Comment">>,
       <<TYPE_NOTIFICATION, "Entity.UserNotification">> >>

TYPES_DICT ==
    << <<TYPE_USER, "User">>,
       <<TYPE_FORUM, "Forum">>,
       <<TYPE_TEAM, "Team">>,
       <<TYPE_TOPIC, "Topic">>,
       <<TYPE_MESSAGE, "ChatMessage">>,
       <<TYPE_TOPIC_REPLY, "TopicReply">>,
       <<TYPE_NOTIFICATION, "Notification">> >>

----------------------------------------------------------------------------
(* Python values and dict operations *)

PyNone == [t |-> "None"]
PyStr(s) == [t |-> "str", s |-> s]
PyInt(i) == [t |-> "int", i |-> i]
PyList(l) == [t |-> "list", l |-> l]
\* what Object.__init__ stores: the class, obj_type, entity_type and id
PyObj(cls, obj_type, entity_type, id) ==
    [t |-> "obj", cls |-> cls, obj_type |-> obj_type,
     entity_type |-> entity_type, id |-> id]
\* the caller has received nothing (the call is running, or it raised)
NoValue == [t |-> "unset"]

Keys(d) == {d[i][1] : i \in DOMAIN d}
Values(d) == {d[i][2] : i \in DOMAIN d}
HasKey(d, k) == \E i \in DOMAIN d : d[i][1] = k
\* d[k], for a key the dict has
GetItem(d, k) == d[CHOOSE i \in DOMAIN d : d[i][1] = k][2]

Min(a, b) == IF a <= b THEN a ELSE b

----------------------------------------------------------------------------
(* Entity registry *)

RECURSIVE ScanItems(_, _)
\* the for loop of get_type_from_entity from item i on; falling off the end
\* of the function returns None
ScanItems(i, entity_type) ==
    IF i > Len(ENTITY_TYPES) THEN PyNone
    ELSE IF ENTITY_TYPES[i][2] = entity_type THEN PyStr(ENTITY_TYPES[i][1])
    ELSE ScanItems(i + 1, entity_type)

\* mutant: the scan misses the first item of the dict
get_type_from_entity_skips_first(entity_type) == ScanItems(2, entity_type)

get_type_from_entity(entity_type) == ScanItems(1, entity_type)

\* type tokens and entity-type strings a caller may pass: the closed set and
\* strings outside it
TokenInputs == Keys(ENTITY_TYPES) \cup {"tasks"}
EntityInputs == Values(ENTITY_TYPES) \cup {"Entity.Tasks.Task", ""}

----------------------------------------------------------------------------
(* Outcomes of a call: a returned value or a raised exception *)

Returns(v) == [exc |-> "none", val |-> v]
Raises(e) == [exc |-> e, val |-> NoValue]

\* Object.__init__(cred, obj_type, data) under class cls: ENTITY_TYPES[obj_type]
\* raises KeyError for a token outside the dict; a raw record is identified
\* by its id
Object_init(cls, tok, data_id) ==
    IF ~HasKey(ENTITY_TYPES, tok) THEN Raises("KeyError")
    ELSE Returns(PyObj(cls, tok, GetItem(ENTITY_TYPES, tok), data_id))

\* [cls(cred, tok, data) for data in records]: the first record that cannot
\* be wrapped raises; no record, nothing is evaluated
WrapEach(cls, tok, records) ==
    IF records = <<>> THEN Returns(PyList(<<>>))
    ELSE IF Object_init(cls, tok, records[1]).exc # "none"
         THEN Object_init(cls, tok, records[1])
         ELSE Returns(PyList([i \in DOMAIN records |->
                                  Object_init(cls, tok, records[i]).val]))

\* [TYPES_DICT[obj_type](self, obj_type, chat) for chat in chats]: the
\* subscript is evaluated once per record
get_chats_wrap(tok, chats) ==
    IF chats = <<>> THEN Returns(PyList(<<>>))
    ELSE IF ~HasKey(TYPES_DICT, tok) THEN Raises("KeyError")
    ELSE WrapEach(GetItem(TYPES_DICT, tok), tok, chats)

\* what the caller of get_all does with the list it returns
WrapResult(o, tok, records) ==
    CASE o = "get_all" -> Returns(PyList(records))
      [] o = "get_chats" -> get_chats_wrap(tok, records)
      [] o = "get_notifs" -> WrapEach("Notification", TYPE_NOTIFICATION, records)
      [] o = "get_topics" -> WrapEach("Topic", TYPE_TOPIC, records)
      [] o = "get_replies" -> WrapEach("TopicReply", TYPE_TOPIC_REPLY, records)

\* Ryver.get_object(obj_type, obj_id) once the server has answered: ok is
\* whether the status is a success; the record it gives has the id asked for
get_object(tok, id, ok) ==
    IF ~ok THEN Raises("HTTPError")
    ELSE IF ~HasKey(TYPES_DICT, tok) THEN Raises("KeyError")
    ELSE Object_init(GetItem(TYPES_DICT, tok), tok, id)

----------------------------------------------------------------------------
(* Notification *)

\* a sub-record of "via" that refers to another entity; present is whether
\* the key is in the raw record
Ref(present, type, id) == [present |-> present, type |-> type, id |-> id]
NoRef == Ref(FALSE, "", 0)
NoData == [viaType |-> "", via |-> [workroom |-> NoRef, post |-> NoRef]]

\* Notification.get_source_type
get_source_type(d) == get_type_from_entity(d.viaType)

\* "Not implemented for type " + source_type is evaluated before the raise:
\* str + None is a TypeError
RaiseNotImplemented(source_type) ==
    IF source_type.t = "str" THEN Raises("NotImplementedError")
    ELSE Raises("TypeError")

get_source_location_type(d) ==
    LET source_type == get_source_type(d)
    IN IF source_type = PyStr(TYPE_MESSAGE)
       THEN IF ~d.via.workroom.present THEN Raises("KeyError")
            ELSE Returns(get_type_from_entity(d.via.workroom.type))
       ELSE IF source_type = PyStr(TYPE_TOPIC_REPLY)
       THEN IF ~d.via.post.present THEN Raises("KeyError")
            ELSE Returns(get_type_from_entity(d.via.post.type))
       ELSE RaiseNotImplemented(source_type)

\* the postComments branch assigns the id to a local and falls off the end
get_source_location_id(d) ==
    LET source_type == get_source_type(d)
    IN IF source_type = PyStr(TYPE_MESSAGE)
       THEN IF ~d.via.workroom.present THEN Raises("KeyError")
            ELSE Returns(PyInt(d.via.workroom.id))
       ELSE IF source_type = PyStr(TYPE_TOPIC_REPLY)
       THEN IF ~d.via.post.present THEN Raises("KeyError")
            ELSE Returns(PyNone)
       ELSE RaiseNotImplemented(source_type)

\* the raw records of notifications: any viaType, a workroom reference to a
\* chat or none, a post reference to a topic or none
ChatEntities == {"Entity.User", "Entity.Forum", "Entity.Workroom"}
WorkroomRefs == {NoRef} \cup {Ref(TRUE, e, i) : e \in ChatEntities, i \in 1..MaxId}
PostRefs == {NoRef} \cup {Ref(TRUE, "Entity.Post", i) : i \in 1..MaxId}
NotificationData ==
    {[viaType |-> e, via |-> [workroom |-> w, post |-> p]] :
        e \in EntityInputs, w \in WorkroomRefs, p \in PostRefs}

----------------------------------------------------------------------------
(* Message *)

\* a call's outcome together with the number of HTTP requests it issued
Did(out, nreq) == [out |-> out, nreq |-> nreq]

\* the concrete Message classes
MessageClasses == {"Topic", "TopicReply", "ChatMessage"}
\* a message: its class and the author id its raw record holds under
\* "createUser" (Topic) or "from" (ChatMessage); 0: the record holds none
Msg(cls, author) == [cls |-> cls, author |-> author]
NoMsg == Msg("", 0)
Messages == {Msg(c, a) : c \in MessageClasses, a \in 0..MaxId}

\* mutant: the reply's author is looked up behind the "deferred" URL, which
\* the server answers with HTTP 500
TopicReply_get_author_deferred(m) == Did(Raises("HTTPError"), 1)

\* TopicReply.get_author
TopicReply_get_author(m) == Did(Raises("NotImplementedError"), 0)

\* TopicReply.get_author_id
TopicReply_get_author_id(m) == Did(Raises("NotImplementedError"), 0)

\* Topic.get_author_id and ChatMessage.get_author_id: a field of the record
Field_get_author_id(m) ==
    IF m.author = 0 THEN Did(Raises("KeyError"), 0)
    ELSE Did(Returns(PyInt(m.author)), 0)

\* self.get_author_id() by the class of self
get_author_id(m) ==
    IF m.cls = "TopicReply" THEN TopicReply_get_author_id(m)
    ELSE Field_get_author_id(m)

\* Message.get_author: self.cred.get_object(TYPE_USER, self.get_author_id())
Message_get_author(m, ok) ==
    IF get_author_id(m).out.exc # "none" THEN get_author_id(m)
    ELSE Did(get_object(TYPE_USER, m.author, ok), 1)

\* self.get_author() by the class of self
get_author(m, ok) ==
    IF m.cls = "TopicReply" THEN TopicReply_get_author(m)
    ELSE Message_get_author(m, ok)

----------------------------------------------------------------------------
(* State *)

VARIABLES
    pc,          \* "idle", "get_all" (in the while loop), "return", "done"
    op,          \* the operation the caller invoked
    arg_top,     \* the caller's top (-1: everything)
    arg_skip,    \* the caller's skip
    obj_type,    \* the type token argument (get_chats, get_object)
    obj_id,      \* the id argument (get_object)
    arg_entity,  \* the entity-type string argument (get_type_from_entity)
    data,        \* the raw record of the Notification a method is called on
    msg,         \* the Message a method is called on: its class and raw record
    N,           \* the number of records the server holds for the endpoint
    top,         \* get_all's remaining budget: [inf, n]
    skip,        \* get_all's current offset
    result,      \* get_all's result list
    pages,       \* the pages this call has received, in order of arrival
    req,         \* the last request issued: [skip, top]
    requests,    \* the number of HTTP requests issued by this call
    shorts,      \* the number of short pages the server gave this call
    failed_at,   \* which request of this call got a non-success status (0: none)
    ret,         \* the value the caller received
    exc          \* the exception the caller received, or "none"

vars == <<pc, op, arg_top, arg_skip, obj_type, obj_id, arg_entity, data, msg,
          N, top, skip, result, pages, req, requests, shorts, failed_at, ret,
          exc>>

\* the tops a caller passes: the unbounded sentinel and finite limits
Tops == {-1, 0, 1, 49, 50, 51, 120}

\* the Session and object methods that wrap the records get_all returns
Wrappers == {"get_chats", "get_notifs", "get_topics", "get_replies"}
GetAllCallers == {"get_all"} \cup Wrappers

\* the budget after "if top == -1: top = float('inf')"
Budget(t) == IF t = -1 THEN [inf |-> TRUE, n |-> 0] ELSE [inf |-> FALSE, n |-> t]
\* mutant: the page size ignores the remaining budget
Count_ignores_budget(b) == PageCap
\* count = min(top, 50)
Count(b) == IF b.inf THEN PageCap ELSE Min(b.n, PageCap)
\* top -= count
Spend(b, count) == IF b.inf THEN b ELSE [b EXCEPT !.n = b.n - count]
\* mutant: a spent budget does not end the loop
Exhausted_never(b) == FALSE
\* top == 0
Exhausted(b) == ~b.inf /\ b.n = 0
\* mutant: an empty page does not end the loop
Break_on_budget_only(len, b) == Exhausted(b)
\* "if len(page) == 0 or top == 0: break"
Break(len, b) == len = 0 \/ Exhausted(b)
\* mutant: the offset advances by the page size, not by the records received
Advance_by_page_size(s, len) == s + PageCap
\* "skip += len(page)"
Advance(s, len) == s + len

\* the record at offset i - 1 of the endpoint, identified by its id
ServerPage(from, len) == [i \in 1..len |-> from + i]
\* the longest page the server gives for $skip=s&$top=c
FullLen(s, c) == Min(Min(c, PageCap), IF N > s THEN N - s ELSE 0)
\* the page lengths the server may answer with: the full page, or (at most
\* MaxShort times in a call) a non-empty shorter one
PageLens(s, c) ==
    {FullLen(s, c)} \cup
    (IF shorts < MaxShort
     THEN {l \in {1, FullLen(s, c) - 1} : 0 < l /\ l < FullLen(s, c)}
     ELSE {})

Init ==
    /\ pc = "idle"
    /\ op = "none"
    /\ arg_top = -1
    /\ arg_skip = 0
    /\ obj_type = ""
    /\ obj_id = 0
    /\ arg_entity = ""
    /\ data = NoData
    /\ msg = NoMsg
    /\ N = 0
    /\ top = Budget(-1)
    /\ skip = 0
    /\ result = <<>>
    /\ pages = <<>>
    /\ req = [skip |-> 0, top |-> 0]
    /\ requests = 0
    /\ shorts = 0
    /\ failed_at = 0
    /\ ret = NoValue
    /\ exc = "none"


\* entering get_all(url, headers, top, skip, param) on behalf of o
Enter_get_all(o, t, s, n, tok) ==
    /\ pc = "idle"
    /\ pc' = "get_all"
    /\ op' = o
    /\ arg_top' = t
    /\ arg_skip' = s
    /\ obj_type' = tok
    /\ N' = n
    /\ top' = Budget(t)
    /\ skip' = s
    /\ result' = <<>>
    /\ pages' = <<>>
    /\ UNCHANGED <<obj_id, arg_entity, data, msg, req, requests, shorts,
                   failed_at, ret, exc>>

\* a direct call of get_all
Call_get_all ==
    \E t \in Tops, s \in 0..MaxSkip, n \in 0..MaxN :
        Enter_get_all("get_all", t, s, n, "")

\* Ryver.get_chats(obj_type, top, skip)
Call_get_chats ==
    \E tok \in TokenInputs, t \in Tops, s \in 0..MaxSkip, n \in 0..MaxWrapN :
        Enter_get_all("get_chats", t, s, n, tok)

\* Ryver.get_notifs, Chat.get_topics, Topic.get_replies (top, skip)
Call_get_list ==
    \E o \in Wrappers \ {"get_chats"}, t \in Tops, s \in 0..MaxSkip,
       n \in 0..MaxWrapN :
        Enter_get_all(o, t, s, n, "")

\* mutant: a non-success status is taken for the end of the records and the
\* pages received so far are returned
RaiseForStatus_swallowed ==
    /\ exc' = "none"
    /\ pc' = "return"
    /\ failed_at' = requests + 1
    /\ UNCHANGED <<skip, result, pages, shorts, ret>>

\* resp.raise_for_status() on a non-success status: HTTPError leaves get_all
\* and its caller
RaiseForStatus ==
    /\ exc' = "HTTPError"
    /\ pc' = "done"
    /\ failed_at' = requests + 1
    /\ UNCHANGED <<skip, result, pages, shorts, ret>>

\* a page of len records arrived: the extend and the break test
ReceivePage(len, left) ==
    /\ shorts' = IF len < FullLen(skip, Count(top)) THEN shorts + 1 ELSE shorts
    /\ result' = result \o ServerPage(skip, len)
    /\ pages' = Append(pages, ServerPage(skip, len))
    /\ IF Break(len, left)
       THEN pc' = "return" /\ skip' = skip
       ELSE pc' = "get_all" /\ skip' = Advance(skip, len)
    /\ UNCHANGED <<failed_at, ret, exc>>

\* one iteration of get_all's while loop: count, the request and its answer
Request ==
    /\ pc = "get_all"
    /\ req' = [skip |-> skip, top |-> Count(top)]
    /\ requests' = requests + 1
    /\ top' = Spend(top, Count(top))
    /\ \/ RaiseForStatus
       \/ \E len \in PageLens(skip, Count(top)) :
              ReceivePage(len, Spend(top, Count(top)))
    /\ UNCHANGED <<op, arg_top, arg_skip, obj_type, obj_id, arg_entity, data,
                   msg, N>>

\* "return result" of get_all, and what its caller makes of the list
Return ==
    /\ pc = "return"
    /\ ret' = WrapResult(op, obj_type, result).val
    /\ exc' = WrapResult(op, obj_type, result).exc
    /\ pc' = "done"
    /\ UNCHANGED <<op, arg_top, arg_skip, obj_type, obj_id, arg_entity, data,
                   msg, N, top, skip, result, pages, req, requests, shorts,
                   failed_at>>

\* a call that runs to its end in one step: o with outcome out, having
\* issued nreq requests
Complete(o, out, nreq) ==
    /\ pc = "idle"
    /\ pc' = "done"
    /\ op' = o
    /\ ret' = out.val
    /\ exc' = out.exc
    /\ requests' = nreq
    /\ UNCHANGED <<arg_top, arg_skip, N, top, skip, result, pages, req, shorts>>

\* Ryver.get_object(obj_type, obj_id)
Call_get_object ==
    \E tok \in TokenInputs, id \in 1..MaxId, ok \in BOOLEAN :
        /\ Complete("get_object", get_object(tok, id, ok), 1)
        /\ obj_type' = tok
        /\ obj_id' = id
        /\ failed_at' = IF ok THEN 0 ELSE 1
        /\ UNCHANGED <<arg_entity, data, msg>>

\* get_type_from_entity(entity_type)
Call_get_type_from_entity ==
    \E e \in EntityInputs :
        /\ Complete("get_type_from_entity", Returns(get_type_from_entity(e)), 0)
        /\ arg_entity' = e
        /\ UNCHANGED <<obj_type, obj_id, data, msg, failed_at>>

\* Notification.get_source_location_type()
Call_get_source_location_type ==
    \E d \in NotificationData :
        /\ Complete("get_source_location_type", get_source_location_type(d), 0)
        /\ data' = d
        /\ UNCHANGED <<obj_type, obj_id, arg_entity, msg, failed_at>>

\* Notification.get_source_location_id()
Call_get_source_location_id ==
    \E d \in NotificationData :
        /\ Complete("get_source_location_id", get_source_location_id(d), 0)
        /\ data' = d
        /\ UNCHANGED <<obj_type, obj_id, arg_entity, msg, failed_at>>

\* Message.get_author() on a Topic, TopicReply or ChatMessage
Call_get_author ==
    \E m \in Messages, ok \in BOOLEAN :
        /\ Complete("get_author", get_author(m, ok).out, get_author(m, ok).nreq)
        /\ msg' = m
        /\ failed_at' = IF get_author(m, ok).nreq = 1 /\ ~ok THEN 1 ELSE 0
        /\ UNCHANGED <<obj_type, obj_id, arg_entity, data>>

\* Message.get_author_id() on a Topic, TopicReply or ChatMessage
Call_get_author_id ==
    \E m \in Messages :
        /\ Complete("get_author_id", get_author_id(m).out, get_author_id(m).nreq)
        /\ msg' = m
        /\ UNCHANGED <<obj_type, obj_id, arg_entity, data, failed_at>>

\* the caller takes the outcome; the call's frame is discarded
Finish ==
    /\ pc = "done"
    /\ pc' = "idle"
    /\ op' = "none"
    /\ arg_top' = -1
    /\ arg_skip' = 0
    /\ obj_type' = ""
    /\ obj_id' = 0
    /\ arg_entity' = ""
    /\ data' = NoData
    /\ msg' = NoMsg
    /\ N' = 0
    /\ top' = Budget(-1)
    /\ skip' = 0
    /\ result' = <<>>
    /\ pages' = <<>>
    /\ req' = [skip |-> 0, top |-> 0]
    /\ requests' = 0
    /\ shorts' = 0
    /\ failed_at' = 0
    /\ ret' = NoValue
    /\ exc' = "none"

Next ==
    \/ Call_get_all
    \/ Call_get_chats
    \/ Call_get_list
    \/ Request
    \/ Return
    \/ Call_get_object
    \/ Call_get_type_from_entity
    \/ Call_get_source_location_type
    \/ Call_get_source_location_id
    \/ Call_get_author
    \/ Call_get_author_id
    \/ Finish

Spec == Init /\ [][Next]_vars

----------------------------------------------------------------------------
(* Properties *)

CeilDiv(a, b) == (a + b - 1) \div b
\* the records the server holds from the caller's skip on
Avail == IF N > arg_skip THEN N - arg_skip ELSE 0
\* the token whose entity-type string is e, for e in the closed set
TokenOf(e) == CHOOSE t \in Keys(ENTITY_TYPES) : GetItem(ENTITY_TYPES, t) = e
\* a get_all call that returned, every page of it a full one
FullPagesDone ==
    /\ pc = "done"
    /\ op = "get_all"
    /\ exc = "none"
    /\ shorts = 0
    /\ arg_skip = 0

\* C1: for top in {0, 1, 49, 50, 51, 120} and a server of N records that gives
\* full pages, get_all(top, skip=0) returns the first min(top, N) server
\* records, in server order, each once.
C1_FirstRecordsInOrder ==
    (FullPagesDone /\ arg_top \in {0, 1, 49, 50, 51, 120})
        => ret = PyList([i \in 1..Min(arg_top, N) |-> i])

\* C1 witness: top = 120 against 60 records took three requests and returned
\* the 60 records
C1_Witness ==
    /\ FullPagesDone
    /\ arg_top = 120
    /\ N = 60
    /\ requests = 3
    /\ ret.t = "list"
    /\ Len(ret.l) = 60

\* C2 as stated: for top in {1, 49, 50, 51, 120} and every N, get_all issues
\* ceil(min(top, N) / 50) requests before it returns.
C2_RequestCount_AsStated ==
    (FullPagesDone /\ arg_top \in {1, 49, 50, 51, 120})
        => requests = CeilDiv(Min(arg_top, N), PageCap)

\* C2 amended: for top in {1, 49, 50, 51, 120} and every N, get_all issues
\* min(ceil(top / 50), ceil(N / 50) + 1) requests before it returns: it asks
\* until the budget is spent or a page comes back empty.
C2_RequestCount ==
    (FullPagesDone /\ arg_top \in {1, 49, 50, 51, 120})
        => requests = Min(CeilDiv(arg_top, PageCap), CeilDiv(N, PageCap) + 1)

\* C2 witness: top = 51 against 50 records: a second request is issued and
\* comes back empty
C2_Witness ==
    /\ FullPagesDone
    /\ arg_top = 51
    /\ N = 50
    /\ requests = 2
    /\ req = [skip |-> 50, top |-> 1]

\* C3: get_all with top == 0 returns the empty list without issuing any HTTP
\* request, for every skip and server state.
C3_TopZeroNoRequest ==
    (pc = "done" /\ op = "get_all" /\ arg_top = 0 /\ exc = "none")
        => /\ requests = 0
           /\ ret = PyList(<<>>)

\* C4: against a server that may give a non-empty short page while more
\* records remain, get_all returns every record from offset skip on, up to
\* top records (all of them for top = -1).
C4_NoEarlyStop ==
    (pc = "done" /\ op = "get_all" /\ exc = "none")
        => ret = PyList(ServerPage(arg_skip,
                                   IF arg_top = -1 THEN Avail
                                   ELSE Min(arg_top, Avail)))

\* C5: once a page request of get_all (called directly or through get_chats,
\* get_notifs, get_topics, get_replies) gets a non-success status, the call
\* has ended with the HTTP error, the caller has received no records, and the
\* failed request is the last request of the call.
C5_HTTPFailureAborts ==
    (op \in GetAllCallers /\ failed_at > 0)
        => /\ pc = "done"
           /\ exc = "HTTPError"
           /\ ret = NoValue
           /\ requests = failed_at

\* C5 witness: get_chats failed on its second request, after a page of
\* records had been received
C5_Witness ==
    /\ op = "get_chats"
    /\ failed_at = 2
    /\ Len(result) > 0
    /\ exc = "HTTPError"

\* C6: the seven tokens and the seven entity-type strings are in bijection:
\* get_type_from_entity(ENTITY_TYPES[t]) = t for every token t,
\* ENTITY_TYPES[get_type_from_entity(e)] = e for every entity-type string e
\* of the dict, and TYPES_DICT has the same seven keys.
C6_RegistryBijection ==
    (pc = "done" /\ op = "get_type_from_entity")
        => /\ \A t \in Keys(ENTITY_TYPES) :
                  GetItem(ENTITY_TYPES, t) = arg_entity => ret = PyStr(t)
           /\ arg_entity \in Values(ENTITY_TYPES)
                  => /\ ret.t = "str"
                     /\ HasKey(ENTITY_TYPES, ret.s)
                     /\ GetItem(ENTITY_TYPES, ret.s) = arg_entity
           /\ Keys(TYPES_DICT) = Keys(ENTITY_TYPES)
           /\ Cardinality(Keys(ENTITY_TYPES)) = 7
           /\ Cardinality(Values(ENTITY_TYPES)) = 7
           /\ Len(ENTITY_TYPES) = 7
           /\ Len(TYPES_DICT) = 7

\* C6 witness: the entity-type string of the last item was looked up
C6_Witness ==
    /\ pc = "done"
    /\ op = "get_type_from_entity"
    /\ arg_entity = "Entity.UserNotification"
    /\ ret = PyStr(TYPE_NOTIFICATION)

\* C7: get_type_from_entity fails with a lookup error for every string that
\* is not one of the seven entity-type strings; it returns no value for it.
C7_UnknownEntityRaises ==
    (pc = "done" /\ op = "get_type_from_entity"
     /\ arg_entity \notin Values(ENTITY_TYPES))
        => /\ exc \in {"LookupError", "KeyError", "IndexError"}
           /\ ret = NoValue

\* C8: for a chat-message notification get_source_location_type returns the
\* token of via.workroom's entity type and get_source_location_id returns
\* via.workroom's id; for a topic-reply notification they return the token of
\* via.post's entity type and via.post's id.
C8_SourceLocation ==
    pc = "done" =>
        /\ (op = "get_source_location_type"
            /\ data.viaType = "Entity.ChatMessage" /\ data.via.workroom.present)
               => (exc = "none" /\ ret = PyStr(TokenOf(data.via.workroom.type)))
        /\ (op = "get_source_location_id"
            /\ data.viaType = "Entity.ChatMessage" /\ data.via.workroom.present)
               => (exc = "none" /\ ret = PyInt(data.via.workroom.id))
        /\ (op = "get_source_location_type"
            /\ data.viaType = "Entity.Post.Comment" /\ data.via.post.present)
               => (exc = "none" /\ ret = PyStr(TokenOf(data.via.post.type)))
        /\ (op = "get_source_location_id"
            /\ data.viaType = "Entity.Post.Comment" /\ data.via.post.present)
               => (exc = "none" /\ ret = PyInt(data.via.post.id))

\* C9: for a notification whose source is neither a chat message nor a topic
\* reply (another token of the closed set, or a viaType outside it),
\* get_source_location_type and get_source_location_id fail with
\* NotImplementedError: no value, no other error kind.
C9_OtherSourceUnimplemented ==
    (pc = "done"
     /\ op \in {"get_source_location_type", "get_source_location_id"}
     /\ data.viaType \notin {"Entity.ChatMessage", "Entity.Post.Comment"})
        => /\ exc = "NotImplementedError"
           /\ ret = NoValue

\* C10: get_object and get_chats called with a type token outside the closed
\* set end in a failure whatever the server answers; they return no value.
C10_UnknownTokenFails ==
    (pc = "done" /\ op \in {"get_object", "get_chats"}
     /\ obj_type \notin Keys(TYPES_DICT))
        => /\ exc # "none"
           /\ ret = NoValue

\* C11: TopicReply.get_author() and TopicReply.get_author_id() fail with
\* NotImplementedError for every raw record and issue no HTTP request, whereas
\* the inherited Message.get_author issues one request through the Session
\* once the author id is read.
C11_TopicReplyAuthorUnsupported ==
    (pc = "done" /\ op \in {"get_author", "get_author_id"})
        => /\ msg.cls = "TopicReply"
                  => /\ exc = "NotImplementedError"
                     /\ ret = NoValue
                     /\ requests = 0
           /\ (op = "get_author" /\ msg.cls # "TopicReply" /\ msg.author # 0)
                  => requests = 1

\* C11 witness: get_author was called on a topic reply whose record holds an
\* author id, and failed
C11_Witness ==
    /\ pc = "done"
    /\ op = "get_author"
    /\ msg = Msg("TopicReply", 1)
    /\ exc = "NotImplementedError"

RECURSIVE Concat(_)
\* the pages of ps one after the other
Concat(ps) == IF ps = <<>> THEN <<>> ELSE Head(ps) \o Concat(Tail(ps))

\* the pages received before the last request was issued: every request
\* before it was answered with a page
EarlierPages == SubSeq(pages, 1, requests - 1)

\* C12: in every run of get_all the $skip of each request is the caller's
\* skip plus the number of records received in all earlier pages, and the
\* result at that point is the concatenation, in order, of those pages.
C12_OffsetFollowsReceived ==
    op \in GetAllCallers
        => /\ result = Concat(pages)
           /\ requests > 0 => req.skip = arg_skip + Len(Concat(EarlierPages))
           /\ pc = "get_all"
                  => /\ Len(pages) = requests
                     /\ skip = arg_skip + Len(Concat(pages))

\* C12 witness: a third request was issued after a short page of one record
\* and a full page
C12_Witness ==
    /\ op = "get_all"
    /\ requests = 3
    /\ Len(pages) = 3
    /\ Len(pages[1]) = 1
    /\ Len(pages[2]) = PageCap
    /\ req.skip = arg_skip + 1 + PageCap

\* the loop of get_all runs on: the library is synchronous, a request is
\* answered (with a page or a failure) and the next statement executes
FairSpec == Spec /\ WF_vars(Request) /\ WF_vars(Return)

Max(a, b) == IF a >= b THEN a ELSE b

\* what C13 says of a state of a get_all run whose requests all succeeded
C13_Bounded ==
    (op \in GetAllCallers /\ failed_at = 0)
        => /\ arg_top >= 0
                  => /\ requests <= Max(1, CeilDiv(arg_top, PageCap))
                     /\ pc \in {"return", "done"} => requests >= 1
           /\ arg_top = -1
                  => /\ top.inf
                     /\ ~Exhausted(top)
                     /\ Len(pages) = requests
                     /\ \A i \in 1..(Len(pages) - 1) : pages[i] # <<>>
                     /\ pc = "get_all" => \A i \in DOMAIN pages : pages[i] # <<>>
                     /\ pc \in {"return", "done"}
                            => (pages # <<>> /\ pages[Len(pages)] = <<>>)

\* C13: against a server of finitely many records that gives an empty page
\* once the offset reaches the end, get_all terminates; with every request
\* succeeding a finite top takes at least one and at most
\* max(1, ceil(top / 50)) requests, and with top = -1 the budget never
\* reaches zero and the loop ends exactly at the first empty page.
C13_Terminates ==
    /\ []C13_Bounded
    /\ (pc = "get_all") ~> (pc = "done")

\* C13 witness: an unbounded get_all returned after its fourth request, the
\* first that was answered with an empty page
C13_Witness ==
    /\ pc = "done"
    /\ op = "get_all"
    /\ arg_top = -1
    /\ failed_at = 0
    /\ requests = 4
    /\ pages[4] = <<>>
    /\ Len(ret.l) > 2 * PageCap

====
